---------------------------- MODULE Spec2Model ----------------------------
(* Model of backend/onyx/connectors/confluence/onyx_confluence.py:         *)
(*   - OnyxConfluence._paginate_url, the cursor-paginating generator,      *)
(*     against (a) an arbitrary server and (b) a record store;             *)
(*   - handle_confluence_rate_limit / _handle_http_error, the retry        *)
(*     wrapper and its backoff classifier, against a controllable clock;   *)
(*   - OnyxConfluence.cql_paginate_all_expansions, the traversal that      *)
(*     appends the remaining pages of nested result lists.                 *)
EXTENDS Integers, Sequences, FiniteSets, TLC

VARIABLES
    pc,             \* position of the generator: FETCHING, YIELDING, DONE, ERROR
    url_suffix,     \* the cursor of the next GET (a URL, see Url)
    limit,          \* the local page-size limit
    auto_paginate,  \* the auto_paginate argument
    results,        \* results of the page being yielded (record ids)
    next_link,      \* next_response["_links"]["next"] of that page
    idx,            \* how many of results have been yielded
    yielded,        \* every record handed to the caller so far, in order
    served,         \* every record the server put in a successful page, in order
    nreq,           \* number of GETs issued
    limit_arg,      \* the limit argument (0: None)
    nerr,           \* number of GETs answered with an error status
    wellformed,     \* every response so far was a page with a well-formed next link
    hist,           \* the last step taken and the request it was about
    store           \* the server's configuration (record-store server)

pvars == <<pc, url_suffix, limit, auto_paginate, results, next_link, idx,
           yielded, served, nreq, limit_arg, nerr, wellformed, hist, store>>

VARIABLES
    w_pc,           \* position of wrapped_call: idle, check, wait, returned, raised
    attempt,        \* the loop variable of wrapped_call
    now,            \* time.monotonic(), in ticks
    timeout_at,     \* the deadline, in ticks
    delay_until,    \* the resume time of the current backoff wait, in ticks
    calls,          \* how often confluence_call has been invoked
    w_outcome,      \* how wrapped_call ended
    w_last          \* the last failure of confluence_call and how it was classified

wvars == <<w_pc, attempt, now, timeout_at, delay_until, calls, w_outcome, w_last>>

VARIABLES
    r_pc,           \* position of cql_paginate_all_expansions for one record
    r_profile,      \* what the server sends for the nested result lists, per level
    r_stack,        \* pending calls of _traverse_and_update, next one first
    r_items,        \* length of the results lists that were extended
    r_visits,       \* how often _traverse_and_update was called on each mapping and list
    r_fetches,      \* number of _paginate_url(next_url) calls
    r_runs,         \* traversals started on the record
    r_snap          \* r_items and r_fetches when the traversal was started again

rvars == <<r_pc, r_profile, r_stack, r_items, r_visits, r_fetches, r_runs, r_snap>>

vars == <<pvars, wvars, rvars>>

-----------------------------------------------------------------------------
(* Program constants *)

_DEFAULT_PAGINATION_LIMIT == 1000
_MINIMUM_PAGINATION_LIMIT == 50

(* Bounds of the model *)

MaxRequests == 3      \* GETs per retrieval (arbitrary server)
MaxPage == 2          \* records per page of the arbitrary server
MaxAdvance == 2       \* largest advance of start the arbitrary server puts in a cursor
MaxFailures == 7      \* GETs per retrieval (failing server)
NumRecords == 7       \* sizes 0..NumRecords of the record store
BigStore == 60        \* a store larger than a halved page
PageCap == 3          \* the page size a capping store enforces
MaxStoreErrors == 2   \* HTTP 500 answers of the record store per retrieval
TicksPerSecond == 2   \* resolution of the clock
LongCall == 250       \* seconds a slow confluence_call takes

-----------------------------------------------------------------------------
(* URLs.  A url_suffix is a string; what the code reads of it is whether   *)
(* it is empty, whether it contains body.storage.value or body.view.value, *)
(* its start parameter and the text of its limit parameter.                *)

Expansions == {"body.storage.value", "body.view.value", "none"}

_PROBLEMATIC_EXPANSIONS == "body.storage.value"
_REPLACEMENT_EXPANSIONS == "body.view.value"

EmptyUrl == [empty |-> TRUE, expand |-> "none", hasStart |-> FALSE, start |-> 0,
             hasLimit |-> FALSE, limit |-> 0]

MkUrl(e, hs, s, hl, l) == [empty |-> FALSE, expand |-> e, hasStart |-> hs,
                           start |-> s, hasLimit |-> hl, limit |-> l]

(* str(int): the decimal digits of n, and back *)
RECURSIVE Digits(_)
Digits(n) == IF n < 10 THEN <<n>> ELSE Append(Digits(n \div 10), n % 10)

RECURSIVE Value(_)
Value(ds) == IF ds = <<>> THEN 0
             ELSE 10 * Value(SubSeq(ds, 1, Len(ds) - 1)) + ds[Len(ds)]

IsPrefix(p, s) == Len(p) <= Len(s) /\ SubSeq(s, 1, Len(p)) = p

(* url_suffix.replace(f"limit={old}", f"limit={new}"): the text "limit=<old>" *)
(* occurs in "limit=<digits>" exactly when the digits of old are a prefix.    *)
MutReplaceLimit(u, old, new) == u

ReplaceLimit(u, old, new) ==
    IF u.hasLimit /\ IsPrefix(Digits(old), Digits(u.limit))
    THEN [u EXCEPT !.limit = Value(Digits(new) \o
                SubSeq(Digits(u.limit), Len(Digits(old)) + 1, Len(Digits(u.limit))))]
    ELSE u

(* url_suffix.replace(_PROBLEMATIC_EXPANSIONS, _REPLACEMENT_EXPANSIONS) *)
MutReplaceExpansion(u) == u

ReplaceExpansion(u) ==
    IF u.expand = _PROBLEMATIC_EXPANSIONS
    THEN [u EXCEPT !.expand = _REPLACEMENT_EXPANSIONS] ELSE u

(* onyx.connectors.confluence.utils *)
get_start_param_from_url(u) == IF u.hasStart THEN u.start ELSE 0

update_param_in_path_start(u, value) ==
    [u EXCEPT !.hasStart = TRUE, !.start = value]

-----------------------------------------------------------------------------
(* _paginate_url: the pieces of the loop body *)

(* if not limit: limit = _DEFAULT_PAGINATION_LIMIT *)
EffectiveLimit(arg) == IF arg = 0 THEN _DEFAULT_PAGINATION_LIMIT ELSE arg

(* url_suffix += f"{connection_char}limit={limit}" *)
InitialUrl(e, arg) == MkUrl(e, FALSE, 0, TRUE, EffectiveLimit(arg))

(* raw_response.raise_for_status() raises for 4xx and 5xx *)
IsErrorStatus(status) == status >= 400

(* if _PROBLEMATIC_EXPANSIONS in url_suffix *)
HasProblematicExpansion(u) == u.expand = _PROBLEMATIC_EXPANSIONS

(* raw_response.status_code == 500 and limit > _MINIMUM_PAGINATION_LIMIT *)
MutShouldHalve(status, lim) == status >= 500 /\ lim > _MINIMUM_PAGINATION_LIMIT

ShouldHalve(status, lim) == status = 500 /\ lim > _MINIMUM_PAGINATION_LIMIT

MutNewLimitStuck(lim) ==
    IF lim \div 2 < _MINIMUM_PAGINATION_LIMIT THEN lim ELSE lim \div 2

(* new_limit = limit // 2 *)
new_limit(lim) == lim \div 2

(* lines 253-267: never advance start by more than len(results) *)
MutCorrectedCursor(old, nxt, R) == nxt

MutCorrectedCursorOffByOne(old, nxt, R) ==
    IF ~nxt.empty /\ nxt.hasStart
          /\ get_start_param_from_url(nxt) - get_start_param_from_url(old) > R
    THEN update_param_in_path_start(nxt, get_start_param_from_url(old) + R + 1)
    ELSE nxt

CorrectedCursor(old, nxt, R) ==
    IF ~nxt.empty /\ nxt.hasStart
    THEN LET new_start == get_start_param_from_url(nxt)
             previous_start == get_start_param_from_url(old)
         IN  IF new_start - previous_start > R
             THEN update_param_in_path_start(nxt, previous_start + R)
             ELSE nxt
    ELSE nxt

(* lines 269-275: synthesize the cursor from the previous request *)
MutAutoCursorNoFlag(old, cur, R, auto) ==
    IF R > 0
    THEN update_param_in_path_start(old, get_start_param_from_url(old) + R)
    ELSE cur

MutAutoCursorFromServer(old, cur, R, auto) ==
    IF auto /\ R > 0
    THEN update_param_in_path_start(cur, get_start_param_from_url(old) + R)
    ELSE cur

MutAutoCursorOff(old, cur, R, auto) == cur

AutoCursor(old, cur, R, auto) ==
    IF auto /\ R > 0
    THEN update_param_in_path_start(old, get_start_param_from_url(old) + R)
    ELSE cur

(* lines 244-275 *)
NextCursor(old, nxt, R, auto) == AutoCursor(old, CorrectedCursor(old, nxt, R), R, auto)

-----------------------------------------------------------------------------
(* _paginate_url: the steps of the generator *)

Step(op, status) == [op |-> op, prev |-> hist.op, req |-> url_suffix, lim |-> limit,
                     status |-> status, ylen |-> Len(yielded)]

(* a next link is well-formed when it is empty (last page) or advances start *)
(* by exactly the number of results returned                                 *)
WellFormedLink(u, R, nxt) ==
    nxt.empty \/ (nxt.hasStart /\ nxt.start = get_start_param_from_url(u) + R)

(* self.get raises: logged and re-raised (lines 179-186) *)
GetRaises ==
    /\ pc = "FETCHING"
    /\ nreq' = nreq + 1
    /\ pc' = "ERROR"
    /\ wellformed' = FALSE
    /\ hist' = Step("raise", 0)
    /\ UNCHANGED <<url_suffix, limit, auto_paginate, results, next_link, idx,
                   yielded, served, limit_arg, nerr, store>>
    /\ UNCHANGED <<wvars, rvars>>

(* raise_for_status raises (lines 188-230) *)
GetError(status) ==
    /\ pc = "FETCHING"
    /\ IsErrorStatus(status)
    /\ nreq' = nreq + 1
    /\ nerr' = nerr + 1
    /\ wellformed' = FALSE
    /\ IF HasProblematicExpansion(url_suffix)
       THEN /\ url_suffix' = ReplaceExpansion(url_suffix)
            /\ hist' = Step("substitute", status)
            /\ UNCHANGED <<pc, limit>>
       ELSE IF ShouldHalve(status, limit)
       THEN /\ url_suffix' = ReplaceLimit(url_suffix, limit, new_limit(limit))
            /\ limit' = new_limit(limit)
            /\ hist' = Step("halve", status)
            /\ UNCHANGED pc
       ELSE /\ pc' = "ERROR"
            /\ hist' = Step("fatal", status)
            /\ UNCHANGED <<url_suffix, limit>>
    /\ UNCHANGED <<auto_paginate, results, next_link, idx, yielded, served,
                   limit_arg, store>>
    /\ UNCHANGED <<wvars, rvars>>

(* raw_response.json() raises (lines 232-238) *)
GetBadJson ==
    /\ pc = "FETCHING"
    /\ nreq' = nreq + 1
    /\ pc' = "ERROR"
    /\ wellformed' = FALSE
    /\ hist' = Step("badjson", 200)
    /\ UNCHANGED <<url_suffix, limit, auto_paginate, results, next_link, idx,
                   yielded, served, limit_arg, nerr, store>>
    /\ UNCHANGED <<wvars, rvars>>

(* a page arrives: results and the next link are read (lines 232-241) *)
GetPage(page, nxt) ==
    /\ pc = "FETCHING"
    /\ nreq' = nreq + 1
    /\ results' = page
    /\ next_link' = nxt
    /\ idx' = 0
    /\ served' = served \o page
    /\ pc' = "YIELDING"
    /\ wellformed' = (wellformed /\ WellFormedLink(url_suffix, Len(page), nxt))
    /\ hist' = Step("page", 200)
    /\ UNCHANGED <<url_suffix, limit, auto_paginate, yielded, limit_arg, nerr, store>>
    /\ UNCHANGED <<wvars, rvars>>

(* yield from results: one record (line 242) *)
Yield ==
    /\ pc = "YIELDING"
    /\ idx < Len(results)
    /\ idx' = idx + 1
    /\ yielded' = Append(yielded, results[idx + 1])
    /\ hist' = [hist EXCEPT !.op = "yield"]
    /\ UNCHANGED <<pc, url_suffix, limit, auto_paginate, results, next_link,
                   served, nreq, limit_arg, nerr, wellformed, store>>
    /\ UNCHANGED <<wvars, rvars>>

(* the page is exhausted: the next cursor is computed (lines 244-275, 177) *)
Advance ==
    /\ pc = "YIELDING"
    /\ idx = Len(results)
    /\ url_suffix' = NextCursor(url_suffix, next_link, Len(results), auto_paginate)
    /\ pc' = IF url_suffix'.empty THEN "DONE" ELSE "FETCHING"
    /\ hist' = [hist EXCEPT !.op = "advance"]
    /\ UNCHANGED <<limit, auto_paginate, results, next_link, idx, yielded,
                   served, nreq, limit_arg, nerr, wellformed, store>>
    /\ UNCHANGED <<wvars, rvars>>

-----------------------------------------------------------------------------
(* No wrapped call in progress *)

NoHTTPError == [response |-> FALSE, status |-> 0, ratetext |-> FALSE,
                header |-> "absent", value |-> 0]

NoFailure == [kind |-> "none", attempt |-> 0, e |-> NoHTTPError, delay |-> 0, at |-> 0]

(* no record is being resolved *)
ResolverIdle ==
    /\ r_pc = "idle"
    /\ r_profile = <<>>
    /\ r_stack = <<>>
    /\ r_items = <<>>
    /\ r_visits = <<>>
    /\ r_fetches = 0
    /\ r_runs = 0
    /\ r_snap = [items |-> <<>>, fetches |-> 0]

WrapperIdle ==
    /\ w_pc = "idle"
    /\ attempt = 0
    /\ now = 0
    /\ timeout_at = 0
    /\ delay_until = 0
    /\ calls = 0
    /\ w_outcome = "none"
    /\ w_last = NoFailure

-----------------------------------------------------------------------------
(* The callers' arguments and the state at the first iteration *)

CallerLimits == {0, 100}

NoStore == [n |-> 0, cap |-> 0, mode |-> "any"]

InitPaginate(st) ==
    /\ pc = "FETCHING"
    /\ auto_paginate \in BOOLEAN
    /\ limit_arg \in CallerLimits
    /\ limit = EffectiveLimit(limit_arg)
    /\ \E e \in Expansions : url_suffix = InitialUrl(e, limit_arg)
    /\ results = <<>>
    /\ next_link = EmptyUrl
    /\ idx = 0
    /\ yielded = <<>>
    /\ served = <<>>
    /\ nreq = 0
    /\ nerr = 0
    /\ wellformed = TRUE
    /\ hist = [op |-> "init", prev |-> "init", req |-> EmptyUrl, lim |-> 0,
               status |-> 0, ylen |-> 0]
    /\ store = st
    /\ WrapperIdle
    /\ ResolverIdle

-----------------------------------------------------------------------------
(* Spec: an arbitrary server: any status, any page, any next link *)

Statuses == {404, 429, 500, 503}

(* records are told apart by the order in which the server hands them out *)
FreshPage(R) == [i \in 1..R |-> Len(served) + i]

Max(a, b) == IF a > b THEN a ELSE b
Min(a, b) == IF a < b THEN a ELSE b

ServerStarts(u) ==
    {Max(0, get_start_param_from_url(u) + a) : a \in (-1)..MaxAdvance}

ServerLimits(u) == {u.limit, _DEFAULT_PAGINATION_LIMIT}

ServerCursors(u) ==
    {EmptyUrl}
    \cup {MkUrl(u.expand, TRUE, s, TRUE, l) : s \in ServerStarts(u), l \in ServerLimits(u)}
    \cup {MkUrl(u.expand, TRUE, s, FALSE, 0) : s \in ServerStarts(u)}
    \cup {MkUrl(u.expand, FALSE, 0, TRUE, l) : l \in ServerLimits(u)}

Init == InitPaginate(NoStore)

Next ==
    \/ nreq < MaxRequests /\ GetRaises
    \/ nreq < MaxRequests /\ \E status \in Statuses : GetError(status)
    \/ nreq < MaxRequests /\ GetBadJson
    \/ nreq < MaxRequests /\ \E R \in 0..MaxPage, nxt \in ServerCursors(url_suffix) :
                                GetPage(FreshPage(R), nxt)
    \/ Yield
    \/ Advance

Spec == Init /\ [][Next]_vars

-----------------------------------------------------------------------------
(* SpecFailing: a server that answers every request with an error status *)

NextFailing == nreq < MaxFailures /\ \E status \in Statuses : GetError(status)

SpecFailing == Init /\ [][NextFailing]_vars

-----------------------------------------------------------------------------
(* SpecStore: a server holding the records 0..n-1.  A request at start s   *)
(* with limit l is answered with the records s..min(s+l, s+cap, n)-1; the  *)
(* next link echoes the request and is absent after the last record.  Its  *)
(* start is s + len(results) (mode "exact") or s + l (mode "bylimit", the  *)
(* Confluence defect of lines 247-252); mode "none" sends no next link.    *)

StoreSizes == 0..NumRecords \cup {BigStore}

Stores == [n : StoreSizes, cap : {0, PageCap}, mode : {"exact", "bylimit", "none"}]

StoreCount(u) ==
    LET s == get_start_param_from_url(u)
        l == IF store.cap > 0 THEN Min(u.limit, store.cap) ELSE u.limit
    IN  IF s >= store.n THEN 0 ELSE Min(l, store.n - s)

StorePage(u) == [i \in 1..StoreCount(u) |-> get_start_param_from_url(u) + i - 1]

StoreNext(u) ==
    LET s == get_start_param_from_url(u)
    IN  IF s + StoreCount(u) >= store.n \/ store.mode = "none" THEN EmptyUrl
        ELSE IF store.mode = "exact"
        THEN MkUrl(u.expand, TRUE, s + StoreCount(u), TRUE, u.limit)
        ELSE MkUrl(u.expand, TRUE, s + u.limit, TRUE, u.limit)

InitStore == \E st \in Stores : InitPaginate(st)

NextStore ==
    \/ nerr < MaxStoreErrors /\ GetError(500)
    \/ GetPage(StorePage(url_suffix), StoreNext(url_suffix))
    \/ Yield
    \/ Advance

SpecStore == InitStore /\ [][NextStore]_vars

-----------------------------------------------------------------------------
(* Properties of _paginate_url *)

IsPrefixOf(a, b) == Len(a) <= Len(b) /\ a = SubSeq(b, 1, Len(a))

(* the start offset and result count of the page the last step was about *)
previous_start == get_start_param_from_url(hist.req)
R_last == Len(results)

(* C1: without auto_paginate, after a page whose next link carries a start: *)
(* if the link advances start by more than len(results), the next request  *)
(* is at previous_start + len(results); otherwise the link is used as is.   *)
C1_CursorNeverOverAdvances ==
    (hist.op = "advance" /\ ~auto_paginate /\ ~next_link.empty /\ next_link.hasStart)
    => IF next_link.start - previous_start > R_last
       THEN /\ pc = "FETCHING"
            /\ url_suffix.start = previous_start + R_last
            /\ url_suffix = [next_link EXCEPT !.start = previous_start + R_last]
       ELSE url_suffix = next_link

C1_Witness ==
    /\ hist.op = "advance" /\ ~auto_paginate /\ nreq >= 2
    /\ ~next_link.empty /\ next_link.hasStart
    /\ R_last > 0 /\ previous_start > 0
    /\ next_link.start - previous_start > R_last
    /\ url_suffix.start = previous_start + R_last

(* C2: with well-formed next links and no failure, the records yielded are  *)
(* the pages' records in order, each page is yielded in full before the     *)
(* next request, a non-empty link is followed as given, and after the page  *)
(* with the empty link the retrieval is DONE and takes no further step.     *)
PagesInOrder ==
    /\ IsPrefixOf(yielded, served)
    /\ (pc \in {"FETCHING", "DONE"} => yielded = served)
    /\ ((hist.op = "advance" /\ next_link.empty) => pc = "DONE")
    /\ ((hist.op = "advance" /\ ~next_link.empty) => pc = "FETCHING")
    /\ (pc = "DONE" => ~ENABLED Next)

(* C2 as stated: whatever auto_paginate is *)
C2_WellFormedPagesAnyMode == wellformed => PagesInOrder

(* C2 as amended: with auto_paginate disabled *)
C2_WellFormedPages ==
    (wellformed /\ ~auto_paginate)
    => /\ PagesInOrder
       /\ ((hist.op = "advance" /\ ~next_link.empty) => url_suffix = next_link)

C2_Witness ==
    /\ wellformed /\ ~auto_paginate /\ pc = "DONE"
    /\ nreq = 3 /\ Len(yielded) >= 4 /\ yielded = served

(* C4: started with the default limit, the limit never goes below the minimum *)
C4_LimitNeverBelowMinimum ==
    limit_arg = 0 => limit >= _MINIMUM_PAGINATION_LIMIT

(* C5 as stated: on a URL without the problematic expansion, any 5xx answer *)
(* with the limit above the minimum halves the limit and retries.           *)
C5_Any5xxHalves ==
    (hist.op \in {"halve", "fatal"} /\ hist.status >= 500
        /\ hist.lim > _MINIMUM_PAGINATION_LIMIT)
    => (hist.op = "halve" /\ limit = hist.lim \div 2 /\ pc = "FETCHING")

(* C5 as amended: an error answer on a URL without the problematic          *)
(* expansion halves the limit and retries the same page exactly when the    *)
(* status is 500 and the limit exceeds 50 (the limit parameter of the       *)
(* cursor is rewritten when it shows the current limit); any other error    *)
(* answer is fatal.                                                         *)
C5_Status500Halves ==
    (hist.op \in {"substitute", "halve", "fatal"}
        /\ hist.req.expand # _PROBLEMATIC_EXPANSIONS)
    => IF hist.status = 500 /\ hist.lim > _MINIMUM_PAGINATION_LIMIT
       THEN /\ hist.op = "halve" /\ pc = "FETCHING"
            /\ limit = hist.lim \div 2
            /\ url_suffix.start = hist.req.start
            /\ url_suffix.hasStart = hist.req.hasStart
            /\ url_suffix.expand = hist.req.expand
            /\ ((hist.req.hasLimit /\ hist.req.limit = hist.lim)
                    => url_suffix.limit = hist.lim \div 2)
            /\ Len(yielded) = hist.ylen
       ELSE hist.op = "fatal" /\ pc = "ERROR" /\ limit = hist.lim

C5_Witness ==
    /\ hist.op = "halve" /\ hist.status = 500 /\ hist.lim = 500
    /\ hist.req.limit = 500 /\ url_suffix.limit = 250 /\ limit = 250

(* C7: an error answer to a request with the problematic expansion rewrites *)
(* the expansion only and retries; when the retry succeeds the records are  *)
(* yielded and no error reaches the caller.                                 *)
C7_ExpansionSubstituted ==
    /\ (hist.op \in {"substitute", "halve", "fatal"}
            /\ hist.req.expand = _PROBLEMATIC_EXPANSIONS)
       => /\ hist.op = "substitute" /\ pc = "FETCHING"
          /\ url_suffix = [hist.req EXCEPT !.expand = _REPLACEMENT_EXPANSIONS]
          /\ limit = hist.lim
          /\ Len(yielded) = hist.ylen
    /\ (hist.prev = "substitute" /\ hist.op \in {"page", "yield", "advance"})
       => /\ pc # "ERROR"
          /\ hist.req.expand = _REPLACEMENT_EXPANSIONS
          /\ IsPrefixOf(yielded, served)
          /\ (hist.op = "advance" => yielded = served)

C7_Witness ==
    /\ hist.prev = "substitute" /\ hist.op = "advance"
    /\ nreq = 2 /\ nerr = 1 /\ Len(yielded) = 2 /\ yielded = served

(* C8: with auto_paginate, after a page with at least one result the next   *)
(* request is the previous request's URL with start = previous_start +      *)
(* len(results), whatever next link the server sent.                        *)
C8_AutoPaginateSynthesizes ==
    (hist.op = "advance" /\ auto_paginate /\ R_last > 0)
    => /\ pc = "FETCHING"
       /\ url_suffix = [hist.req EXCEPT !.hasStart = TRUE,
                                        !.start = previous_start + R_last]

C8_Witness ==
    /\ hist.op = "advance" /\ auto_paginate /\ R_last = 1
    /\ ~next_link.empty /\ next_link.hasStart /\ ~next_link.hasLimit
    /\ next_link.start = previous_start + 2
    /\ url_suffix.start = previous_start + 1 /\ url_suffix.hasLimit

(* C9: with auto_paginate, a page with zero results ends the loop *)
C9_ZeroResultsEndLoop ==
    (hist.op = "advance" /\ auto_paginate /\ R_last = 0) => pc = "DONE"

-----------------------------------------------------------------------------
(* Properties of _paginate_url against the record store *)

IsIndexPrefix(seq) == \A i \in 1..Len(seq) : seq[i] = i - 1

(* C3: a store that caps pages below the limit but advances the next link   *)
(* by the limit: every record is yielded once, in index order.              *)
C3_CappedStoreLosesNothing ==
    (store.mode = "bylimit" /\ store.cap > 0)
    => /\ IsIndexPrefix(yielded)
       /\ (pc = "DONE" => Len(yielded) = store.n)

C3_Witness ==
    /\ store.mode = "bylimit" /\ store.cap > 0 /\ store.cap < limit
    /\ ~auto_paginate /\ pc = "DONE" /\ nreq >= 3
    /\ store.n = NumRecords /\ Len(yielded) = NumRecords

(* C6: an HTTP 500 answered by a retry at the halved limit changes only the *)
(* limit of the request, yields nothing of the failed request, and the      *)
(* retrieval still yields every record of the store once, in order, as the  *)
(* retrieval without any error does.                                        *)
C6_HalvedRetryKeepsRecords ==
    /\ (hist.op = "halve")
       => /\ hist.status = 500 /\ pc = "FETCHING"
          /\ url_suffix = [hist.req EXCEPT !.limit = hist.lim \div 2]
          /\ Len(yielded) = hist.ylen
    /\ (store.mode # "none" \/ auto_paginate)
       => /\ IsIndexPrefix(yielded)
          /\ (pc = "DONE" => Len(yielded) = store.n)

C6_Witness ==
    /\ pc = "DONE" /\ nerr = 1 /\ limit_arg = 100 /\ limit = 50
    /\ store.n = BigStore /\ store.cap = 0 /\ store.mode = "exact"
    /\ ~auto_paginate /\ nreq = 3 /\ Len(yielded) = BigStore

-----------------------------------------------------------------------------
(* _handle_http_error and handle_confluence_rate_limit.  Time is counted in *)
(* ticks, TicksPerSecond to the second.                                     *)

MIN_DELAY == 2
MAX_DELAY == 60
STARTING_DELAY == 5
BACKOFF == 2
MAX_RETRIES == 5
TIMEOUT == 600
ATTRIBUTE_ERROR_SLEEP == 5

Seconds(n) == n * TicksPerSecond

(* math.ceil of a time: the next whole second *)
MutCeil(t) == (t \div TicksPerSecond) * TicksPerSecond

Ceil(t) == ((t + TicksPerSecond - 1) \div TicksPerSecond) * TicksPerSecond

RECURSIVE Pow(_, _)
Pow(b, n) == IF n = 0 THEN 1 ELSE b * Pow(b, n - 1)

(* An HTTPError: whether it has a response with headers, its status, whether *)
(* the body holds "rate limit exceeded", and its Retry-After header           *)
RetryAfterValues == {-3, 0, 2, 30, 61}

Headers == {[header |-> "absent", value |-> 0], [header |-> "garbage", value |-> 0]}
           \cup {[header |-> "int", value |-> v] : v \in RetryAfterValues}

HTTPErrors ==
    {NoHTTPError}
    \cup {[response |-> TRUE, status |-> st, ratetext |-> rt,
           header |-> h.header, value |-> h.value] :
             st \in {429, 500}, rt \in BOOLEAN, h \in Headers}

(* lines 52-61: the error is raised again *)
MutPropagates(e) == ~e.response

Propagates(e) == ~e.response \/ (e.status # 429 /\ ~e.ratetext)

(* lines 63-77: int(Retry-After), clamped *)
HasRetryAfter(e) == e.header = "int"

MutClampRetryAfter(v) == IF v > MAX_DELAY THEN MAX_DELAY ELSE v

ClampRetryAfter(v) ==
    LET a == IF v > MAX_DELAY THEN MAX_DELAY ELSE v
    IN  IF a < MIN_DELAY THEN MIN_DELAY ELSE a

(* lines 79-88: the delay, in seconds *)
Delay(e, n) ==
    IF HasRetryAfter(e) THEN ClampRetryAfter(e.value)
    ELSE Min(STARTING_DELAY * Pow(BACKOFF, n), MAX_DELAY)

(* lines 90-91: delay_until = math.ceil(time.monotonic() + delay) *)
DelayUntil(e, n, t) == Ceil(t + Seconds(Delay(e, n)))

(* line 105: time.monotonic() > timeout_at *)
MutDeadlinePassed(t, at) == FALSE

MutDeadlinePassedEarly(t, at) == t >= at

DeadlinePassed(t, at) == t > at

(* durations of a call, in ticks; time.sleep(n) takes n seconds *)
CallTicks == {0, Seconds(LongCall)}

(* the exception caught at time t, and the delay chosen for it *)
Failure(kind, e, t) ==
    [kind |-> kind, attempt |-> attempt, e |-> e,
     delay |-> IF kind = "ratelimit" THEN Delay(e, attempt) ELSE 0, at |-> t]

(* lines 115-119: delay_until = _handle_http_error(e, attempt), at time t *)
HandleHTTPError(e, t) ==
    IF Propagates(e)
    THEN /\ w_pc' = "raised"
         /\ w_outcome' = "HTTPError"
         /\ w_last' = Failure("http", e, t)
         /\ UNCHANGED delay_until
    ELSE /\ w_pc' = "wait"
         /\ delay_until' = DelayUntil(e, attempt, t)
         /\ w_last' = Failure("ratelimit", e, t)
         /\ UNCHANGED w_outcome

(* wrapped_call is entered: lines 99-102 *)
Enter ==
    /\ w_pc = "idle"
    /\ timeout_at' = now + Seconds(TIMEOUT)
    /\ attempt' = 0
    /\ w_pc' = "check"
    /\ UNCHANGED <<now, delay_until, calls, w_outcome, w_last>>
    /\ UNCHANGED <<pvars, rvars>>

(* range(MAX_RETRIES) is exhausted: the function ends without a return *)
Exhausted ==
    /\ w_pc = "check"
    /\ attempt = MAX_RETRIES
    /\ w_pc' = "returned"
    /\ w_outcome' = "None"
    /\ UNCHANGED <<attempt, now, timeout_at, delay_until, calls, w_last>>
    /\ UNCHANGED <<pvars, rvars>>

(* lines 105-108 *)
RaiseTimeout ==
    /\ w_pc = "check"
    /\ attempt < MAX_RETRIES
    /\ DeadlinePassed(now, timeout_at)
    /\ w_pc' = "raised"
    /\ w_outcome' = "TimeoutError"
    /\ UNCHANGED <<attempt, now, timeout_at, delay_until, calls, w_last>>
    /\ UNCHANGED <<pvars, rvars>>

CanCall == w_pc = "check" /\ attempt < MAX_RETRIES /\ ~DeadlinePassed(now, timeout_at)

(* line 113: confluence_call returns *)
CallReturns(d) ==
    /\ CanCall
    /\ calls' = calls + 1
    /\ now' = now + d
    /\ w_pc' = "returned"
    /\ w_outcome' = "value"
    /\ UNCHANGED <<attempt, timeout_at, delay_until, w_last>>
    /\ UNCHANGED <<pvars, rvars>>

(* lines 114-119: confluence_call raises HTTPError *)
CallHTTPError(e, d) ==
    /\ CanCall
    /\ calls' = calls + 1
    /\ now' = now + d
    /\ HandleHTTPError(e, now + d)
    /\ UNCHANGED <<attempt, timeout_at>>
    /\ UNCHANGED <<pvars, rvars>>

(* lines 120-122: while time.monotonic() < delay_until: time.sleep(1) *)
Sleep ==
    /\ w_pc = "wait"
    /\ now < delay_until
    /\ now' = now + Seconds(1)
    /\ UNCHANGED <<w_pc, attempt, timeout_at, delay_until, calls, w_outcome, w_last>>
    /\ UNCHANGED <<pvars, rvars>>

MutWaitOver ==
    /\ w_pc = "wait"
    /\ attempt' = attempt + 1
    /\ w_pc' = "check"
    /\ UNCHANGED <<now, timeout_at, delay_until, calls, w_outcome, w_last>>
    /\ UNCHANGED <<pvars, rvars>>

WaitOver ==
    /\ w_pc = "wait"
    /\ ~(now < delay_until)
    /\ attempt' = attempt + 1
    /\ w_pc' = "check"
    /\ UNCHANGED <<now, timeout_at, delay_until, calls, w_outcome, w_last>>
    /\ UNCHANGED <<pvars, rvars>>

MutCallAttributeError(d) ==
    /\ CanCall
    /\ calls' = calls + 1
    /\ w_last' = Failure("attribute", NoHTTPError, now + d)
    /\ now' = now + d + Seconds(ATTRIBUTE_ERROR_SLEEP)
    /\ attempt' = attempt + 1
    /\ UNCHANGED <<w_pc, w_outcome, timeout_at, delay_until>>
    /\ UNCHANGED <<pvars, rvars>>

(* lines 123-132: confluence_call raises AttributeError *)
CallAttributeError(d) ==
    /\ CanCall
    /\ calls' = calls + 1
    /\ w_last' = Failure("attribute", NoHTTPError, now + d)
    /\ IF attempt = MAX_RETRIES - 1
       THEN /\ now' = now + d
            /\ w_pc' = "raised"
            /\ w_outcome' = "AttributeError"
            /\ UNCHANGED attempt
       ELSE /\ now' = now + d + Seconds(ATTRIBUTE_ERROR_SLEEP)
            /\ attempt' = attempt + 1
            /\ UNCHANGED <<w_pc, w_outcome>>
    /\ UNCHANGED <<timeout_at, delay_until>>
    /\ UNCHANGED <<pvars, rvars>>

(* confluence_call raises anything else: not caught *)
CallOtherError(d) ==
    /\ CanCall
    /\ calls' = calls + 1
    /\ now' = now + d
    /\ w_pc' = "raised"
    /\ w_outcome' = "OtherError"
    /\ w_last' = Failure("other", NoHTTPError, now + d)
    /\ UNCHANGED <<attempt, timeout_at, delay_until>>
    /\ UNCHANGED <<pvars, rvars>>

(* SpecRetry: one wrapped call, entered at any fraction of a second *)
PaginateIdle ==
    /\ pc = "IDLE"
    /\ auto_paginate = FALSE
    /\ limit_arg = 0
    /\ limit = 0
    /\ url_suffix = EmptyUrl
    /\ results = <<>>
    /\ next_link = EmptyUrl
    /\ idx = 0
    /\ yielded = <<>>
    /\ served = <<>>
    /\ nreq = 0
    /\ nerr = 0
    /\ wellformed = TRUE
    /\ hist = [op |-> "init", prev |-> "init", req |-> EmptyUrl, lim |-> 0,
               status |-> 0, ylen |-> 0]
    /\ store = NoStore

InitRetry ==
    /\ PaginateIdle
    /\ ResolverIdle
    /\ w_pc = "idle"
    /\ attempt = 0
    /\ now \in 0..(TicksPerSecond - 1)
    /\ timeout_at = 0
    /\ delay_until = 0
    /\ calls = 0
    /\ w_outcome = "none"
    /\ w_last = NoFailure

NextRetry ==
    \/ Enter
    \/ Exhausted
    \/ RaiseTimeout
    \/ \E d \in CallTicks : CallReturns(d)
    \/ \E e \in HTTPErrors, d \in CallTicks : CallHTTPError(e, d)
    \/ Sleep
    \/ WaitOver
    \/ \E d \in CallTicks : CallAttributeError(d)
    \/ \E d \in CallTicks : CallOtherError(d)

SpecRetry == InitRetry /\ [][NextRetry]_vars

-----------------------------------------------------------------------------
(* Properties of handle_confluence_rate_limit *)

(* C10: the wrapped operation is invoked at most 5 times, only while the    *)
(* deadline has not passed; an attempt that is about to start after the     *)
(* deadline raises TimeoutError without invoking the operation.             *)
C10_AttemptsAndDeadline ==
    /\ [](calls <= MAX_RETRIES)
    /\ [][(w_pc = "check" /\ attempt < MAX_RETRIES /\ now > timeout_at)
            => (w_pc' = "raised" /\ w_outcome' = "TimeoutError" /\ calls' = calls)]_vars
    /\ [][calls' # calls => (calls' = calls + 1 /\ now <= timeout_at)]_vars

C10_Witness ==
    /\ w_pc = "raised" /\ w_outcome = "TimeoutError"
    /\ attempt = 3 /\ calls = 3 /\ now > timeout_at


(* the invocation has ended, one way or the other *)
Ended == w_pc \in {"returned", "raised"}

(* C11, as stated: every invocation that took longer than TIMEOUT seconds
   from entry to end has ended with TimeoutError. *)
C11_OverlongEndsWithTimeout ==
    (Ended /\ now > timeout_at) => w_outcome = "TimeoutError"

(* C11, amended: TimeoutError is raised exactly by the check at the head of
   an iteration of the retry loop, when one of the MAX_RETRIES attempts is
   about to start and the deadline has passed; the outcome of an attempt that
   crosses the deadline is delivered as it is, and once the last attempt has
   been made no TimeoutError is raised any more. *)
C11_TimeoutOnlyAtLoopHead ==
    /\ [][(w_outcome' = "TimeoutError")
            <=> (w_pc = "check" /\ attempt < MAX_RETRIES /\ now > timeout_at)]_vars
    /\ [](w_outcome = "TimeoutError"
            => (w_pc = "raised" /\ now > timeout_at /\ attempt \in 1..(MAX_RETRIES - 1)))
    /\ []((Ended /\ calls = MAX_RETRIES) => w_outcome # "TimeoutError")

(* the deadline is found passed with a single attempt left *)
C11_Witness ==
    /\ w_outcome = "TimeoutError"
    /\ attempt = MAX_RETRIES - 1
    /\ calls = MAX_RETRIES - 1
    /\ w_last.kind = "ratelimit"

(* C12, as stated: an invocation that returns normally returns the value of
   a successful attempt; in particular it does not return normally after
   MAX_RETRIES rate-limited attempts. *)
C12_ReturnsOnlyAValue ==
    w_pc = "returned" => w_outcome = "value"

(* C13, as stated: a page request of a paginating retrieval that is answered
   with status 429 is retried, and the retrieval goes on instead of ending
   with an error. *)
C13_RateLimitedPageIsRetried ==
    hist.status = 429 => pc # "ERROR"

(* the latest invocation of confluence_call failed with an exception of
   this kind *)
LastFailed(kind) == w_last.kind = kind /\ calls = w_last.attempt + 1

(* C14: after a rate-limit failure on attempt n the loop stays in the wait
   until the clock has reached the resume time the handler returned, and
   leaves it within one sleep of that time; attempt n + 1 is then started
   unless the attempts are used up or the deadline has passed. *)
C14_NextAttemptAtResumeTime ==
    LastFailed("ratelimit") =>
        /\ delay_until = DelayUntil(w_last.e, w_last.attempt, w_last.at)
        /\ w_pc = "wait" =>
              /\ attempt = w_last.attempt
              /\ now < delay_until + Seconds(1)
              /\ ENABLED WaitOver <=> now >= delay_until
              /\ ENABLED Sleep <=> now < delay_until
        /\ w_pc # "wait" =>
              /\ attempt = w_last.attempt + 1
              /\ now >= delay_until
              /\ now < delay_until + Seconds(1)
        /\ (w_pc = "check" /\ attempt < MAX_RETRIES /\ now <= timeout_at) =>
              /\ \A d \in CallTicks : ENABLED CallReturns(d)
              /\ ~ENABLED RaiseTimeout
              /\ ~ENABLED Exhausted

(* the second attempt is about to start, after a wait that had to sleep *)
C14_Witness ==
    /\ LastFailed("ratelimit")
    /\ w_pc = "check"
    /\ attempt = 2
    /\ now > delay_until
    /\ delay_until > w_last.at + Seconds(w_last.delay)

(* C15: an HTTP failure without a response, or with a status other than 429
   and a body without the rate-limit phrase, and a failure that is neither an
   HTTPError nor an AttributeError, ends the invocation on the attempt where
   it occurred: the same error is raised at once, with no delay and no
   further invocation. *)
C15_OtherFailuresPropagate ==
    LET e == w_last.e
        NotRateLimit == ~e.response \/ (e.status # 429 /\ ~e.ratetext)
    IN  /\ (w_last.kind \in {"http", "ratelimit"} /\ NotRateLimit) => w_last.kind = "http"
        /\ w_last.kind \in {"http", "other"} =>
              /\ w_pc = "raised"
              /\ w_outcome = (IF w_last.kind = "http" THEN "HTTPError" ELSE "OtherError")
              /\ attempt = w_last.attempt
              /\ calls = w_last.attempt + 1
              /\ now = w_last.at
              /\ w_last.delay = 0
              /\ ~ENABLED NextRetry

(* a status 500 without the phrase, on the third attempt *)
C15_Witness ==
    /\ w_last.kind = "http"
    /\ w_last.e.response
    /\ w_last.e.status = 500
    /\ w_last.attempt = 2
    /\ w_outcome = "HTTPError"

(* C16: an AttributeError on attempt k < MAX_RETRIES - 1 is followed by a
   pause of ATTRIBUTE_ERROR_SLEEP seconds and the head of iteration k + 1
   (where the call is made again unless the deadline has passed); on the last
   attempt it is raised to the caller; an attempt that succeeds ends the
   invocation with its value. *)
C16_AttributeErrorRetried ==
    /\ LastFailed("attribute") =>
          IF w_last.attempt < MAX_RETRIES - 1
          THEN /\ attempt = w_last.attempt + 1
               /\ now = w_last.at + Seconds(5)
               /\ \/ w_pc = "check"
                  \/ w_pc = "raised" /\ w_outcome = "TimeoutError" /\ now > timeout_at
               /\ (w_pc = "check" /\ now <= timeout_at) =>
                      \A d \in CallTicks : ENABLED CallReturns(d)
          ELSE /\ w_pc = "raised"
               /\ w_outcome = "AttributeError"
               /\ now = w_last.at
               /\ ~ENABLED NextRetry
    /\ w_outcome = "value" => (w_pc = "returned" /\ ~ENABLED NextRetry)

(* the fourth attempt raised AttributeError and the fifth is about to start *)
C16_Witness ==
    /\ LastFailed("attribute")
    /\ w_last.attempt = MAX_RETRIES - 2
    /\ w_pc = "check"
    /\ attempt = MAX_RETRIES - 1
    /\ now <= timeout_at

(***************************************************************************)
(* _handle_http_error as a function of its inputs: the error, the attempt  *)
(* index and the clock.  The initial states are the wrapper at line 115,   *)
(* an HTTPError just caught; the one step is the call of the handler.      *)
(***************************************************************************)
MaxBeyond == 3
MaxClock == 2

ClassifyRetryAfter == ((0 - MaxBeyond)..(MAX_DELAY + MaxBeyond)) \cup {MAX_DELAY * MAX_DELAY}

ClassifyErrors ==
    {NoHTTPError}
    \cup {[response |-> TRUE, status |-> st, ratetext |-> rt, header |-> "int", value |-> v] :
            st \in {429, 500}, rt \in BOOLEAN, v \in ClassifyRetryAfter}
    \cup {[response |-> TRUE, status |-> st, ratetext |-> rt, header |-> h, value |-> 0] :
            st \in {429, 500}, rt \in BOOLEAN, h \in {"absent", "garbage"}}

InitClassify ==
    /\ PaginateIdle
    /\ ResolverIdle
    /\ w_pc = "caught"
    /\ attempt \in 0..(MAX_RETRIES - 1)
    /\ now \in 0..Seconds(MaxClock)
    /\ timeout_at = Seconds(TIMEOUT)
    /\ delay_until = 0
    /\ calls = attempt + 1
    /\ w_outcome = "none"
    /\ \E e \in ClassifyErrors : w_last = Failure("caught", e, now)

Classify ==
    /\ w_pc = "caught"
    /\ HandleHTTPError(w_last.e, now)
    /\ UNCHANGED <<attempt, now, timeout_at, calls>>
    /\ UNCHANGED <<pvars, rvars>>

NextClassify == Classify

SpecClassify == InitClassify /\ [][NextClassify]_vars

(* the resume time is the whole second at or next after t + d seconds *)
IsResumeTime(r, t, d) ==
    /\ r % TicksPerSecond = 0
    /\ r >= t + Seconds(d)
    /\ r < t + Seconds(d) + TicksPerSecond

(* C17: for a rate-limit failure whose Retry-After header is the integer X,
   on any attempt, the delay is X clamped into MIN_DELAY..MAX_DELAY, whatever
   the attempt index. *)
C17_RetryAfterClamped ==
    (w_last.kind = "ratelimit" /\ w_last.e.header = "int") =>
        LET X == w_last.e.value
            clamped == IF X < 2 THEN 2 ELSE IF X > 60 THEN 60 ELSE X
        IN  /\ w_last.delay = clamped
            /\ IsResumeTime(delay_until, w_last.at, clamped)

(* Retry-After: 0 on the fourth attempt *)
C17_Witness ==
    /\ w_last.kind = "ratelimit"
    /\ w_last.e.header = "int"
    /\ w_last.e.value = 0
    /\ w_last.attempt = 3
    /\ w_last.delay = 2

(* C18: for a rate-limit failure whose Retry-After header is absent or not
   an integer, on attempt n the delay is min(5 * 2^n, 60), that is 5, 10, 20,
   40, 60 for n = 0..4, and the resume time is the clock plus that delay
   rounded up to a whole second. *)
C18_ExponentialDelay ==
    (w_last.kind = "ratelimit" /\ w_last.e.header \in {"absent", "garbage"}) =>
        LET d == <<5, 10, 20, 40, 60>>[w_last.attempt + 1]
        IN  /\ w_last.delay = d
            /\ IsResumeTime(delay_until, w_last.at, d)

(* the fifth attempt, at a clock that is not on a whole second *)
C18_Witness ==
    /\ w_last.kind = "ratelimit"
    /\ w_last.e.header = "garbage"
    /\ w_last.attempt = 4
    /\ w_last.delay = 60
    /\ w_last.at % TicksPerSecond # 0
    /\ delay_until = w_last.at + Seconds(60) + 1

-----------------------------------------------------------------------------
(* cql_paginate_all_expansions (lines 291-318) on one top-level record.     *)
(*                                                                         *)
(* A record is a mapping; a record above the deepest level has one nested   *)
(* mapping ("children"), which may hold a "results" list of records and a   *)
(* "_links" mapping with a "next" link.  A record is named by its path,     *)
(* the positions in the results lists that lead to it; the top-level        *)
(* record is <<>>.  The nested mapping of record p is named by p as well.   *)

Depth == 2            \* levels of nested result lists
MaxSent == 1          \* records the server puts in the first page of a list
MaxMore == 1          \* records the server keeps for the pages after the first

Levels == 1..Depth

(* what the server sends for every nested mapping of one level: whether it
   has a "results" key, how many records are in it, how many remain behind
   the "next" link (no link when none remain) *)
LevelProfiles ==
    {[key |-> TRUE, sent |-> n, more |-> k] : n \in 0..MaxSent, k \in 0..MaxMore}
    \cup {[key |-> FALSE, sent |-> 0, more |-> k] : k \in 0..MaxMore}

Profiles == [Levels -> LevelProfiles]

Node(k, p) == [k |-> k, p |-> p]

ProfileOf(p) == r_profile[Len(p) + 1]

(* data.get("_links", {}).get("next") is truthy; "results" in data *)
HasNext(x) == x.k = "mapping" /\ ProfileOf(x.p).more > 0

HasResultsKey(x) == x.k = "mapping" /\ ProfileOf(x.p).key

(* len(data["results"]) of the nested mapping of record p *)
ResultsLenIn(items, p) == IF p \in DOMAIN items THEN items[p] ELSE ProfileOf(p).sent

ResultsLen(p) == ResultsLenIn(r_items, p)

(* the records self._paginate_url(next_url) yields: all that are behind the
   link, each time it is called *)
Remaining(p) == ProfileOf(p).more

MutShouldExtend(x) == HasNext(x) /\ HasResultsKey(x) /\ ResultsLen(x.p) > 0

(* line 307: if next_url and "results" in data *)
ShouldExtend(x) == HasNext(x) /\ HasResultsKey(x)

(* data.values() of a mapping, mappings and lists only, in key order *)
Values(x) ==
    IF x.k = "record"
    THEN IF Len(x.p) < Depth THEN <<Node("mapping", x.p)>> ELSE <<>>
    ELSE IF x.k = "mapping"
    THEN (IF ProfileOf(x.p).key THEN <<Node("results", x.p)>> ELSE <<>>)
         \o (IF ProfileOf(x.p).more > 0 THEN <<Node("links", x.p)>> ELSE <<>>)
    ELSE <<>>

(* the items of a results list of length n *)
Items(x, n) == [i \in 1..n |-> Node("record", Append(x.p, i))]

Visited(v, x) == IF x \in DOMAIN v THEN [v EXCEPT ![x] = @ + 1] ELSE v @@ (x :> 1)

EmptySnap == [items |-> <<>>, fetches |-> 0]

(* line 316: paginated_cql_retrieval hands over a record *)
InitResolve ==
    /\ PaginateIdle
    /\ WrapperIdle
    /\ r_pc = "received"
    /\ r_profile \in Profiles
    /\ r_stack = <<>>
    /\ r_items = <<>>
    /\ r_visits = <<>>
    /\ r_fetches = 0
    /\ r_runs = 0
    /\ r_snap = EmptySnap

(* line 317: _traverse_and_update(confluence_object) is called *)
StartTraversal ==
    /\ r_pc = "received"
    /\ r_pc' = "traversing"
    /\ r_stack' = <<Node("record", <<>>)>>
    /\ r_runs' = r_runs + 1
    /\ UNCHANGED <<r_profile, r_items, r_visits, r_fetches, r_snap>>
    /\ UNCHANGED <<pvars, wvars>>

(* lines 305-311: _traverse_and_update on a mapping *)
VisitDict ==
    /\ r_pc = "traversing"
    /\ r_stack # <<>>
    /\ LET x == Head(r_stack)
       IN  /\ x.k # "results"
           /\ r_visits' = Visited(r_visits, x)
           /\ IF ShouldExtend(x)
              THEN /\ r_items' = [q \in DOMAIN r_items \cup {x.p} |->
                                    IF q = x.p THEN ResultsLen(x.p) + Remaining(x.p)
                                    ELSE r_items[q]]
                   /\ r_fetches' = r_fetches + 1
              ELSE UNCHANGED <<r_items, r_fetches>>
           /\ r_stack' = Values(x) \o Tail(r_stack)
    /\ UNCHANGED <<r_pc, r_profile, r_runs, r_snap>>
    /\ UNCHANGED <<pvars, wvars>>

(* lines 312-314: _traverse_and_update on a list *)
VisitList ==
    /\ r_pc = "traversing"
    /\ r_stack # <<>>
    /\ LET x == Head(r_stack)
       IN  /\ x.k = "results"
           /\ r_visits' = Visited(r_visits, x)
           /\ r_stack' = Items(x, ResultsLen(x.p)) \o Tail(r_stack)
    /\ UNCHANGED <<r_pc, r_profile, r_items, r_fetches, r_runs, r_snap>>
    /\ UNCHANGED <<pvars, wvars>>

(* line 318: yield confluence_object *)
YieldRecord ==
    /\ r_pc = "traversing"
    /\ r_stack = <<>>
    /\ r_pc' = "yielded"
    /\ UNCHANGED <<r_profile, r_stack, r_items, r_visits, r_fetches, r_runs, r_snap>>
    /\ UNCHANGED <<pvars, wvars>>

(* _traverse_and_update is run once more on the record it has resolved *)
Rerun ==
    /\ r_pc = "yielded"
    /\ r_runs = 1
    /\ r_pc' = "traversing"
    /\ r_stack' = <<Node("record", <<>>)>>
    /\ r_runs' = r_runs + 1
    /\ r_visits' = <<>>
    /\ r_snap' = [items |-> r_items, fetches |-> r_fetches]
    /\ UNCHANGED <<r_profile, r_items, r_fetches>>
    /\ UNCHANGED <<pvars, wvars>>

NextResolve ==
    \/ StartTraversal
    \/ VisitDict
    \/ VisitList
    \/ YieldRecord
    \/ Rerun

SpecResolve == InitResolve /\ [][NextResolve]_vars

(* the mappings and lists reachable from record p in the data as it is *)
RECURSIVE Reachable(_)
Reachable(p) ==
    {Node("record", p)}
    \cup IF Len(p) < Depth
         THEN {Node("mapping", p)}
              \cup (IF ProfileOf(p).more > 0 THEN {Node("links", p)} ELSE {})
              \cup (IF ProfileOf(p).key
                    THEN {Node("results", p)}
                         \cup UNION {Reachable(Append(p, i)) : i \in 1..ResultsLen(p)}
                    ELSE {})
         ELSE {}

(* the nested mappings that hold a results list and a continuation link *)
Linked == {x \in Reachable(<<>>) : HasNext(x) /\ HasResultsKey(x)}

(* C19, as stated: once a record is resolved no nested mapping holds a
   continuation link next to a results list, and a second run of the
   traversal issues no request and leaves every results list as it was. *)
C19_ResolveIdempotent ==
    /\ r_pc = "yielded" => Linked = {}
    /\ (r_pc = "yielded" /\ r_runs = 2) =>
          (r_fetches = r_snap.fetches /\ r_items = r_snap.items)

(* C20: a record is yielded only when no call of the traversal is pending;
   at the first yield every reachable nested mapping that holds a results
   list and a continuation link has had the records behind the link
   appended, and every mapping and list reachable from the record has been
   visited exactly once; no mapping or list is visited twice in a
   traversal. *)
C20_YieldAfterFullTraversal ==
    /\ r_pc = "yielded" => r_stack = <<>>
    /\ \A x \in DOMAIN r_visits : r_visits[x] = 1
    /\ (r_pc = "yielded" /\ r_runs = 1) =>
          /\ DOMAIN r_visits = Reachable(<<>>)
          /\ \A x \in Linked : /\ x.p \in DOMAIN r_items
                                /\ r_items[x.p] = ProfileOf(x.p).sent + ProfileOf(x.p).more
          /\ r_fetches = Cardinality(Linked)

(* a record behind a continuation link brought a nested list with a link of
   its own, and both were resolved before the yield *)
C20_Witness ==
    /\ r_pc = "yielded"
    /\ r_runs = 1
    /\ ProfileOf(<<>>).sent = 0
    /\ Node("mapping", <<1>>) \in Linked
    /\ <<1>> \in DOMAIN r_items
    /\ Node("record", <<1, 1>>) \in DOMAIN r_visits

-----------------------------------------------------------------------------
(* Progress and termination of _paginate_url *)

(* C21, as stated: without auto_paginate, after a page with zero results
   and a next link whose start is larger than the start just requested, the
   next request is issued at the link the server gave, at a larger start. *)
C21_EmptyPageFollowsCursor ==
    (/\ hist.op = "advance" /\ ~auto_paginate /\ R_last = 0
     /\ ~next_link.empty /\ next_link.hasStart
     /\ next_link.start > previous_start)
    => /\ pc = "FETCHING"
       /\ url_suffix = next_link
       /\ get_start_param_from_url(url_suffix) > previous_start

(* how often a limit can be halved before it is at or below the minimum *)
RECURSIVE HalvingSteps(_)
HalvingSteps(lim) ==
    IF lim > _MINIMUM_PAGINATION_LIMIT THEN 1 + HalvingSteps(lim \div 2) ELSE 0

(* the most requests a retrieval can issue when every answer is an error *)
MostFailures == 1 + HalvingSteps(EffectiveLimit(limit_arg)) + 1

(* C22: when every request is answered with an error status the retrieval
   ends with the error raised after at most one request answered by the
   expansion substitution, one per halving of the limit, and the fatal one;
   a request that is retried differs from the failed one in its URL or its
   limit. *)
C22_FailingServerTerminates ==
    /\ nreq <= MostFailures
    /\ pc = "FETCHING" => nreq < MostFailures
    /\ pc \in {"FETCHING", "ERROR"}
    /\ hist.op = "substitute" =>
          /\ hist.prev = "init"
          /\ pc = "FETCHING"
          /\ ~HasProblematicExpansion(url_suffix)
          /\ url_suffix # hist.req
    /\ hist.op = "halve" =>
          /\ pc = "FETCHING"
          /\ hist.status = 500
          /\ limit < hist.lim
          /\ url_suffix # hist.req
    /\ hist.op = "fatal" => pc = "ERROR"
    /\ pc = "ERROR" => ~ENABLED NextFailing

(* one substitution, the five halvings of 1000, and the fatal error *)
C22_Witness ==
    /\ pc = "ERROR"
    /\ hist.op = "fatal"
    /\ limit_arg = 0
    /\ url_suffix.expand = _REPLACEMENT_EXPANSIONS
    /\ nreq = 7
    /\ limit < _MINIMUM_PAGINATION_LIMIT

(* C23: with auto_paginate, against a store that sends no next link: the
   records are yielded once each in index order; the retrieval is DONE only
   after a page with zero results, which is the one request beyond the
   non-empty pages and the failed requests; after a page with results the
   retrieval always requests again, at the start behind that page. *)
C23_AutoPaginateEndsOnEmptyPage ==
    (auto_paginate /\ store.mode = "none") =>
        /\ IsIndexPrefix(yielded)
        /\ yielded = SubSeq(served, 1, Len(yielded))
        /\ pc = "DONE" =>
              /\ Len(yielded) = store.n
              /\ R_last = 0
              /\ hist.status = 200
              /\ get_start_param_from_url(url_suffix) = 0
              /\ get_start_param_from_url(hist.req) = store.n
              /\ ~ENABLED NextStore
        /\ (hist.op = "advance" /\ R_last > 0) =>
              /\ pc = "FETCHING"
              /\ get_start_param_from_url(url_suffix) = previous_start + R_last
              /\ get_start_param_from_url(url_suffix) = Len(yielded)
        /\ (hist.op = "advance" /\ R_last = 0) => pc = "DONE"
        /\ (pc = "FETCHING" /\ Len(yielded) = store.n /\ nerr = 0) =>
              StoreCount(url_suffix) = 0

(* a capped store of NumRecords records, read to the end *)
C23_Witness ==
    /\ auto_paginate
    /\ store.mode = "none"
    /\ store.cap = PageCap
    /\ store.n = NumRecords
    /\ pc = "DONE"
    /\ Len(yielded) = NumRecords
    /\ nerr = 0
    /\ nreq = (NumRecords + PageCap - 1) \div PageCap + 1

=============================================================================
